---- MODULE Spec2Model ----
(***************************************************************************)
(* Model of the whynot archive: the spider's ingestion batcher             *)
(* (src/bin/spider.rs, batch_dl), the key layout (src/lib.rs, tag_key) and *)
(* the web readers (src/bin/web.rs, list and page).                        *)
(*                                                                         *)
(* Strings are sequences of byte values.  The three fjall partitions are   *)
(*   db    : function  key -> stored payload        ("whynot" partition)   *)
(*   index : set of keys, values are empty          ("index" partition)    *)
(*   tags  : set of keys, values are empty          ("tags" partition)     *)
(* and every partition iterates its keys in byte-lexicographic order.      *)
(***************************************************************************)
EXTENDS Integers, Sequences, FiniteSets, TLC

\* call:   the operation that ran last, with its input and its result
\* spider: the position of the spider's main loop over the sections
\* race:   two batch_dl calls running as concurrent tasks
VARIABLES db, index, tags, call, spider, race

vars == <<db, index, tags, call, spider, race>>

\* the spider's main loop is not running
NoSpider == [pc |-> "off"]

\* no concurrent batch_dl tasks
NoRace == [pc |-> "off"]

procs == <<spider, race>>

stores == <<db, index, tags>>

----------------------------------------------------------------------------
(* Bytes and byte strings                                                  *)

\* b'|' pushed between the tag path and the timestamp
SEP == 124

\* '/' stripped from both ends of website_url and of a section path
SLASH == 47

\* width of i64::to_be_bytes
TsWidth == 8

\* page size of both readers
PageSize == 20

\* str::trim_matches(c): drop every leading and trailing byte equal to c
RECURSIVE trim_matches(_, _)
trim_matches(s, c) ==
    IF s = <<>> THEN s
    ELSE IF Head(s) = c THEN trim_matches(Tail(s), c)
    ELSE IF s[Len(s)] = c THEN trim_matches(SubSeq(s, 1, Len(s) - 1), c)
    ELSE s

\* s[n..]: the suffix of s from 0-based offset n (the caller checks n <= len)
SliceFrom(s, n) == SubSeq(s, n + 1, Len(s))

\* s starts with the bytes of p
HasPrefix(s, p) == Len(s) >= Len(p) /\ SubSeq(s, 1, Len(p)) = p

\* byte-lexicographic order of keys, the iteration order of a partition
LexLess(a, b) ==
    \E i \in 1..(Len(b)) :
        /\ \A j \in 1..(i - 1) : j <= Len(a) /\ a[j] = b[j]
        /\ (i > Len(a) \/ a[i] < b[i])

\* the keys of a partition in descending byte order: iter().rev()
RECURSIVE RevIter(_)
RevIter(S) ==
    IF S = {} THEN <<>>
    ELSE LET m == CHOOSE x \in S : \A y \in S : y = x \/ LexLess(y, x)
         IN  <<m>> \o RevIter(S \ {m})

----------------------------------------------------------------------------
(* Timestamps                                                              *)

\* jiff::Timestamp parsing of the feed's date strings, and as_second():
\* the strings the model feeds in, with the second each one denotes.
\* A string outside this table does not parse (parse().unwrap() panics).
ParsedSeconds ==
    [d \in {"1969-12-31T23:59:58Z", "1969-12-31T23:59:59Z", "1970-01-01T00:00:00Z",
            "1970-01-01T00:00:01Z", "1970-01-01T00:00:01.500Z", "1970-01-01T00:04:15Z",
            "1970-01-01T00:04:16Z", "1970-01-01T18:12:16Z", "2024-01-01T00:00:00Z"} |->
        CASE d = "1969-12-31T23:59:58Z"     -> 0 - 2
          [] d = "1969-12-31T23:59:59Z"     -> 0 - 1
          [] d = "1970-01-01T00:00:00Z"     -> 0
          [] d = "1970-01-01T00:00:01Z"     -> 1
          [] d = "1970-01-01T00:00:01.500Z" -> 1
          [] d = "1970-01-01T00:04:15Z"     -> 255
          [] d = "1970-01-01T00:04:16Z"     -> 256
          [] d = "1970-01-01T18:12:16Z"     -> 65536
          [] d = "2024-01-01T00:00:00Z"     -> 1704067200]

Parses(d) == d \in DOMAIN ParsedSeconds

as_second(d) == ParsedSeconds[d]

Pow256(k) == IF k = 0 THEN 1 ELSE IF k = 1 THEN 256 ELSE IF k = 2 THEN 65536 ELSE 16777216

\* byte k (0 = least significant) of the two's complement form of the i64 t;
\* |t| < 2^31 here, so bytes 4..7 are the sign extension
ByteOf(t, k) ==
    IF t >= 0
    THEN IF k >= 4 THEN 0 ELSE (t \div Pow256(k)) % 256
    ELSE IF k >= 4 THEN 255 ELSE 255 - ((((0 - t) - 1) \div Pow256(k)) % 256)

\* i64::to_be_bytes
to_be_bytes(t) == [i \in 1..TsWidth |-> ByteOf(t, TsWidth - i)]

----------------------------------------------------------------------------
(* Key layout                                                              *)

\* the chronological key built in batch_dl: ts_byte ++ website_url
chrono_key(website_url, display_date) ==
    to_be_bytes(as_second(display_date)) \o website_url

\* mutant: the separator is not pushed
tag_key_nosep(tag_path, website_url, display_date) ==
    tag_path \o to_be_bytes(as_second(display_date)) \o website_url

\* lib.rs tag_key: tag_path ++ '|' ++ ts ++ website_url
tag_key(tag_path, website_url, display_date) ==
    tag_path \o <<SEP>> \o to_be_bytes(as_second(display_date)) \o website_url

----------------------------------------------------------------------------
(* The write batch of batch_dl                                             *)

\* batch.insert(partition, key, value)
Op(part, key, value) == [part |-> part, key |-> key, value |-> value]

\* mutant: only the first section of an item is indexed
TagOpsFirstOnly(sections, website_url, display_date) ==
    IF sections = <<>> THEN <<>>
    ELSE <<[part |-> "tags",
            key |-> tag_key(trim_matches(Head(sections), SLASH), website_url, display_date),
            value |-> <<>>]>>

\* the tag inserts of one item, one per element of taxonomy.sections
RECURSIVE TagOps(_, _, _)
TagOps(sections, website_url, display_date) ==
    IF sections = <<>> THEN <<>>
    ELSE <<Op("tags",
              tag_key(trim_matches(Head(sections), SLASH), website_url, display_date),
              <<>>)>>
         \o TagOps(Tail(sections), website_url, display_date)

\* what batch_dl stages for one new item whose date parses
ItemOps(item) ==
    LET website_url  == trim_matches(item.website_url, SLASH)
        display_date == item.first_publish_date
    IN  TagOps(item.sections, website_url, display_date)
        \o <<Op("db", website_url, item)>>
        \o <<Op("index", chrono_key(website_url, display_date), <<>>)>>

\* mutant: no contains_key check, every item is staged
IsNewAlways(item, store) == TRUE

\* !db.contains_key(website_url): the check reads the committed partition
IsNew(item, store) == trim_matches(item.website_url, SLASH) \notin DOMAIN store

\* mutant: an item whose date does not parse is skipped and the loop goes on
RECURSIVE StageSkippingBadDates(_, _, _)
StageSkippingBadDates(items, store, ops) ==
    IF items = <<>> THEN [panicked |-> FALSE, ops |-> ops]
    ELSE LET item == Head(items)
         IN  IF ~IsNew(item, store) \/ ~Parses(item.first_publish_date)
             THEN StageSkippingBadDates(Tail(items), store, ops)
             ELSE StageSkippingBadDates(Tail(items), store, ops \o ItemOps(item))

\* the for loop of batch_dl over the items of one call: the ops staged, or
\* the panic of display_date.parse().unwrap() with the ops staged before it
RECURSIVE Stage(_, _, _)
Stage(items, store, ops) ==
    IF items = <<>> THEN [panicked |-> FALSE, ops |-> ops]
    ELSE LET item == Head(items)
         IN  IF ~IsNew(item, store)
             THEN Stage(Tail(items), store, ops)
             ELSE IF ~Parses(item.first_publish_date)
             THEN [panicked |-> TRUE, ops |-> ops]
             ELSE Stage(Tail(items), store, ops \o ItemOps(item))

\* mutant: a committed insert does not replace the value of a stored key
RECURSIVE CommitDbKeepFirst(_, _)
CommitDbKeepFirst(store, ops) ==
    IF ops = <<>> THEN store
    ELSE LET o == Head(ops)
         IN  IF o.part = "db" /\ o.key \notin DOMAIN store
             THEN CommitDbKeepFirst([k \in (DOMAIN store) \cup {o.key} |->
                                        IF k = o.key THEN o.value ELSE store[k]],
                                    Tail(ops))
             ELSE CommitDbKeepFirst(store, Tail(ops))

\* batch.commit() on the content partition: the ops applied in order
RECURSIVE CommitDb(_, _)
CommitDb(store, ops) ==
    IF ops = <<>> THEN store
    ELSE LET o == Head(ops)
         IN  IF o.part = "db"
             THEN CommitDb([k \in (DOMAIN store) \cup {o.key} |->
                               IF k = o.key THEN o.value ELSE store[k]],
                           Tail(ops))
             ELSE CommitDb(store, Tail(ops))

\* batch.commit() on a partition with empty values ("index" or "tags")
CommitKeys(keys, ops, part) ==
    keys \cup {ops[i].key : i \in {j \in DOMAIN ops : ops[j].part = part}}

----------------------------------------------------------------------------
(* The readers of web.rs                                                   *)

\* one resolved entry of a page: the key looked up in db and what db holds
Entry(key, payload) == [key |-> key, payload |-> payload]

\* the loop of list() over index.iter().rev().enumerate(), from position idx
RECURSIVE ListLoop(_, _, _, _, _)
ListLoop(entries, idx, n, store, items) ==
    IF idx >= Len(entries) \/ idx >= n + PageSize
    THEN [panicked |-> FALSE, items |-> items]
    ELSE IF idx < n THEN ListLoop(entries, idx + 1, n, store, items)
    ELSE LET k == entries[idx + 1]
         IN  IF Len(k) < TsWidth
             THEN [panicked |-> TRUE, items |-> <<>>]
             ELSE LET db_key == SliceFrom(k, TsWidth)
                  IN  IF db_key \in DOMAIN store
                      THEN ListLoop(entries, idx + 1, n, store,
                                    Append(items, Entry(db_key, store[db_key])))
                      ELSE ListLoop(entries, idx + 1, n, store, items)

\* list(): the page of the chronological index
list(page, store, keys) == ListLoop(RevIter(keys), 0, page * PageSize, store, <<>>)

\* the loop of page() over tags.prefix(prefix).rev().enumerate(); len is the
\* length of the prefix; both unwraps of db.get(..).unwrap().unwrap() panic
RECURSIVE PageLoop(_, _, _, _, _, _)
PageLoop(entries, idx, n, len, store, items) ==
    IF idx >= Len(entries) \/ idx >= n + PageSize
    THEN [panicked |-> FALSE, items |-> items]
    ELSE IF idx < n THEN PageLoop(entries, idx + 1, n, len, store, items)
    ELSE LET k == entries[idx + 1]
         IN  IF Len(k) < len + TsWidth
             THEN [panicked |-> TRUE, items |-> <<>>]
             ELSE LET website_key == SliceFrom(k, len + TsWidth)
                  IN  IF website_key \in DOMAIN store
                      THEN PageLoop(entries, idx + 1, n, len, store,
                                    Append(items, Entry(website_key, store[website_key])))
                      ELSE [panicked |-> TRUE, items |-> <<>>]

\* the else branch of page(): the page of one tag
list_by_tag(key, page, store, keys) ==
    LET prefix == key \o <<SEP>>
    IN  PageLoop(RevIter({k \in keys : HasPrefix(k, prefix)}), 0, page * PageSize,
                 Len(prefix), store, <<>>)

----------------------------------------------------------------------------
(* Inputs                                                                  *)

\* longest item list of one batch_dl call
MaxBatch == 2

\* largest page number a request asks for
MaxPage == 1

\* the items the feed serves: website_url "/a/" or "b", a first_publish_date
\* (the last one does not parse) and taxonomy.sections (["/x/"], ["xy", "x|y"]
\* or absent).  Two items share the id "a" and two the id "b".
FeedItems ==
    { [website_url |-> <<47, 97, 47>>, first_publish_date |-> "1970-01-01T00:00:01Z",
       sections |-> <<(<<47, 120, 47>>)>>],
      [website_url |-> <<47, 97, 47>>, first_publish_date |-> "1969-12-31T23:59:59Z",
       sections |-> <<(<<120, 121>>), (<<120, 124, 121>>)>>],
      [website_url |-> <<98>>, first_publish_date |-> "1969-12-31T23:59:59Z",
       sections |-> <<(<<47, 120, 47>>)>>],
      [website_url |-> <<98>>, first_publish_date |-> "not-a-date",
       sections |-> <<>>] }

RECURSIVE SeqsUpTo(_, _)
SeqsUpTo(S, n) ==
    IF n = 0 THEN {<<>>}
    ELSE LET shorter == SeqsUpTo(S, n - 1)
         IN  shorter \cup {Append(q, x) : q \in {r \in shorter : Len(r) = n - 1}, x \in S}

Batches == SeqsUpTo(FeedItems, MaxBatch)

\* paths requested from page(): the tags "x", "xy", "x|y" and the id "a"
Paths == {<<120>>, <<120, 121>>, <<120, 124, 121>>, <<97>>}

----------------------------------------------------------------------------
(* Actions                                                                 *)

Init ==
    /\ db = <<>>
    /\ index = {}
    /\ tags = {}
    /\ call = [op |-> "none"]
    /\ spider = NoSpider
    /\ race = NoRace

\* spider.rs batch_dl: stage every new item, then commit the batch; a panic
\* (date that does not parse, failed commit) drops the batch
BatchDl(items, commitOk) ==
    LET staged == Stage(items, db, <<>>)
        outcome == IF staged.panicked THEN "parse_panic"
                   ELSE IF ~commitOk THEN "commit_panic"
                   ELSE "committed"
    IN  /\ call' = [op |-> "batch_dl", items |-> items, ops |-> staged.ops,
                    outcome |-> outcome]
        /\ IF outcome = "committed"
           THEN /\ db' = CommitDb(db, staged.ops)
                /\ index' = CommitKeys(index, staged.ops, "index")
                /\ tags' = CommitKeys(tags, staged.ops, "tags")
           ELSE UNCHANGED stores

\* web.rs list: GET /?page=p
List(page) ==
    LET r == list(page, db, index)
    IN  /\ call' = [op |-> "list", page |-> page, panicked |-> r.panicked,
                    items |-> r.items]
        /\ UNCHANGED stores

\* web.rs page: GET /<key>?page=p; an article when key is stored, else a tag page
Page(key, page) ==
    /\ IF key \in DOMAIN db
       THEN call' = [op |-> "page", key |-> key, page |-> page, article |-> TRUE,
                     panicked |-> FALSE, items |-> <<Entry(key, db[key])>>]
       ELSE LET r == list_by_tag(key, page, db, tags)
            IN  call' = [op |-> "page", key |-> key, page |-> page, article |-> FALSE,
                         panicked |-> r.panicked, items |-> r.items]
    /\ UNCHANGED stores

Next ==
    \/ \E items \in Batches, commitOk \in BOOLEAN :
          BatchDl(items, commitOk) /\ UNCHANGED procs
    \/ \E page \in 0..MaxPage : List(page) /\ UNCHANGED procs
    \/ \E key \in Paths, page \in 0..MaxPage : Page(key, page) /\ UNCHANGED procs

Spec == Init /\ [][Next]_vars

----------------------------------------------------------------------------
(* The key layout on its own: keys are built for two (id, date) pairs and  *)
(* one tag, then sliced as the readers slice them                          *)

CodecIds == {<<97>>, <<98>>, <<97, 98>>}

CodecTags == {<<120>>, <<120, 121>>, <<120, 124, 121>>}

CodecInputs == [id : CodecIds, date : DOMAIN ParsedSeconds]

InitCodec ==
    /\ db = <<>>
    /\ index = {}
    /\ tags = {}
    /\ call \in [op : {"codec_input"}, a : CodecInputs, b : CodecInputs, tag : CodecTags]
    /\ spider = NoSpider
    /\ race = NoRace

\* the keys batch_dl builds for a and b (spider.rs 168-174, 183)
EncodeKeys ==
    /\ call.op = "codec_input"
    /\ call' = [op |-> "encoded", a |-> call.a, b |-> call.b, tag |-> call.tag,
                keyA |-> chrono_key(call.a.id, call.a.date),
                keyB |-> chrono_key(call.b.id, call.b.date),
                tagKeyA |-> tag_key(call.tag, call.a.id, call.a.date)]
    /\ UNCHANGED <<stores, procs>>

\* the slices the readers take: &k[8..] in list, &k[len + 8..] in page
DecodeKeys ==
    /\ call.op = "encoded"
    /\ call' = [call EXCEPT !.op = "decoded"] @@
               [idFromChrono |-> SliceFrom(call.keyA, TsWidth),
                idFromTag |-> SliceFrom(call.tagKeyA, (Len(call.tag) + 1) + TsWidth)]
    /\ UNCHANGED <<stores, procs>>

NextCodec == EncodeKeys \/ DecodeKeys

SpecCodec == InitCodec /\ [][NextCodec]_vars

----------------------------------------------------------------------------
(* The readers on their own: web.rs opens whatever the data folder holds,  *)
(* so the partitions are an input of the web server                        *)

ReaderIds == {<<97>>, <<98>>}

ReaderDates == {"1970-01-01T00:00:01Z", "1970-01-01T00:04:16Z"}

\* the payload stored under id in a data folder of the readers
ReaderPayload(id) ==
    [website_url |-> id, first_publish_date |-> "1970-01-01T00:00:01Z",
     sections |-> <<(<<120>>)>>]

InitReader ==
    /\ \E ids \in SUBSET ReaderIds : db = [id \in ids |-> ReaderPayload(id)]
    /\ index \in SUBSET {chrono_key(id, d) : id \in ReaderIds, d \in ReaderDates}
    /\ tags \in SUBSET {tag_key(<<120>>, id, d) : id \in ReaderIds, d \in ReaderDates}
    /\ call = [op |-> "none"]
    /\ spider = NoSpider
    /\ race = NoRace

NextReader ==
    \/ \E page \in 0..MaxPage : List(page) /\ UNCHANGED procs
    \/ \E key \in Paths, page \in 0..MaxPage : Page(key, page) /\ UNCHANGED procs

SpecReader == InitReader /\ [][NextReader]_vars

----------------------------------------------------------------------------
(* Cross-store consistency                                                 *)

\* the trimmed section paths of a stored payload
TagsOf(item) == {trim_matches(item.sections[i], SLASH) : i \in DOMAIN item.sections}

\* id has its chronological entry and one tag entry per tag of its payload
FullyIndexed(id) ==
    /\ chrono_key(id, db[id].first_publish_date) \in index
    /\ \A t \in TagsOf(db[id]) : tag_key(t, id, db[id].first_publish_date) \in tags

\* k is laid out as tag ++ '|' ++ 8 bytes ++ id for some tag
IsTagEntryOf(k, id) ==
    \E n \in 0..Len(k) :
        /\ Len(k) >= (n + 1) + TsWidth
        /\ k[n + 1] = SEP
        /\ SliceFrom(k, (n + 1) + TsWidth) = id

\* C1: in every reachable state an id is a key of the Content Store exactly
\* when its index entries exist: every stored id has its chronological entry
\* and a tag entry for each of its tags, and every chronological or tag entry
\* belongs to a stored id; no part of the triple is visible without the rest.
C1_CrossStoreConsistency ==
    /\ \A id \in DOMAIN db : FullyIndexed(id)
    /\ \A k \in index : Len(k) >= TsWidth /\ SliceFrom(k, TsWidth) \in DOMAIN db
    /\ \A k \in tags : \E id \in DOMAIN db : IsTagEntryOf(k, id)

\* a committed batch_dl call stored an item with two tags
C1_Witness ==
    /\ call.op = "batch_dl" /\ call.outcome = "committed" /\ call.ops # <<>>
    /\ \E id \in DOMAIN db : Cardinality(TagsOf(db[id])) = 2 /\ FullyIndexed(id)

----------------------------------------------------------------------------
(* Dedup                                                                   *)

\* every item of the list is already a key of the content partition
AllStored(items, store) == \A i \in DOMAIN items : ~IsNew(items[i], store)

\* C2: an item whose id is already stored causes no write: a batch_dl call
\* stages no op for a stored id and leaves every stored payload as it was; a
\* call whose items are all stored stages nothing and leaves the three stores
\* unchanged, so running the items of a committed call again inserts nothing.
C2_DedupIdempotent ==
    [][call'.op = "batch_dl" =>
        /\ \A i \in DOMAIN call'.ops :
              call'.ops[i].part = "db" => call'.ops[i].key \notin DOMAIN db
        /\ \A id \in DOMAIN db : id \in DOMAIN db' /\ db'[id] = db[id]
        /\ AllStored(call'.items, db) => call'.ops = <<>> /\ UNCHANGED stores
        /\ (call.op = "batch_dl" /\ call.outcome = "committed"
              /\ call'.items = call.items)
           => call'.ops = <<>> /\ UNCHANGED stores]_vars

\* a committed call whose items were all stored already: nothing staged
C2_Witness ==
    /\ call.op = "batch_dl" /\ call.outcome = "committed"
    /\ Len(call.items) = 2 /\ call.ops = <<>>
    /\ AllStored(call.items, db)

----------------------------------------------------------------------------
(* Pagination                                                              *)

\* item id1 ranks before id2 in descending (publish_time, id) order
Newer(store, id1, id2) ==
    LET t1 == as_second(store[id1].first_publish_date)
        t2 == as_second(store[id2].first_publish_date)
    IN  t1 > t2 \/ (t1 = t2 /\ LexLess(id2, id1))

\* the ids of S, newest first by (publish_time, id)
RECURSIVE Ranked(_, _)
Ranked(store, S) ==
    IF S = {} THEN <<>>
    ELSE LET m == CHOOSE x \in S : \A y \in S : y = x \/ Newer(store, x, y)
         IN  <<m>> \o Ranked(store, S \ {m})

\* ranks 20*page+1 .. min(20*page+20, Len(ranked)) of a ranking
PageOf(ranked, page) ==
    LET first == (PageSize * page) + 1
        last  == IF (PageSize * page) + PageSize < Len(ranked)
                 THEN (PageSize * page) + PageSize ELSE Len(ranked)
    IN  SubSeq(ranked, first, last)

\* the ids a reader returned, in order
ReturnedIds == [i \in DOMAIN call.items |-> call.items[i].key]

\* C3: list_global(p) returns exactly the stored items ranked 20p+1 through
\* min(20p+20, N) in descending (publish_time, id) order, each stored item
\* once.
C3_GlobalPagination ==
    call.op = "list" =>
        /\ ~call.panicked
        /\ ReturnedIds = PageOf(Ranked(db, DOMAIN db), call.page)

\* C4: list_by_tag(T, p) returns exactly the stored items whose tag set
\* contains T, newest first by (publish_time, id), and every returned id is
\* the id of the item it was resolved to.
C4_TagPagination ==
    (call.op = "page" /\ ~call.article) =>
        /\ ~call.panicked
        /\ ReturnedIds =
             PageOf(Ranked(db, {id \in DOMAIN db : call.key \in TagsOf(db[id])}),
                    call.page)
        /\ \A i \in DOMAIN call.items :
              trim_matches(call.items[i].payload.website_url, SLASH) = call.items[i].key

----------------------------------------------------------------------------
(* Key order and key slicing                                               *)

\* C5: for items A and B with distinct ids, A.publish_time < B.publish_time
\* (signed seconds) implies that A's chronological key is byte-
\* lexicographically smaller than B's.
C5_KeyOrderIsTimeOrder ==
    (call.op = "encoded" /\ call.a.id # call.b.id
        /\ as_second(call.a.date) < as_second(call.b.date))
    => LexLess(call.keyA, call.keyB)

\* the tag holds no separator byte
SeparatorFree(tag) == \A i \in DOMAIN tag : tag[i] # SEP

\* C10: slicing the chronological key at offset 8 yields the id, and slicing
\* the tag key of a separator-free tag at offset len(tag)+1+8 yields the id.
C10_KeyRoundTrip ==
    call.op = "decoded" =>
        /\ call.idFromChrono = call.a.id
        /\ SeparatorFree(call.tag) => call.idFromTag = call.a.id

\* keys of the two-byte id "ab" at second 256 under the tag "xy" were sliced
C10_Witness ==
    /\ call.op = "decoded"
    /\ call.a.id = <<97, 98>> /\ as_second(call.a.date) = 256
    /\ call.tag = <<120, 121>>
    /\ call.idFromTag = <<97, 98>> /\ call.idFromChrono = <<97, 98>>

----------------------------------------------------------------------------
(* Failures                                                                *)

\* some item of the list is new and its date does not parse
HasMalformedNew(items, store) ==
    \E i \in DOMAIN items :
        IsNew(items[i], store) /\ ~Parses(items[i].first_publish_date)

\* C6: a batch_dl call with a new item whose publish_time does not parse, or
\* whose commit fails, ends in a panic and leaves the three stores exactly
\* as they were; nothing staged by the call becomes visible.
C6_AllOrNothing ==
    [][call'.op = "batch_dl" =>
        /\ HasMalformedNew(call'.items, db) => call'.outcome = "parse_panic"
        /\ call'.outcome # "committed" => UNCHANGED stores]_vars

\* a call staged a valid item, then panicked on a date; the store is empty
C6_Witness ==
    /\ call.op = "batch_dl" /\ call.outcome = "parse_panic"
    /\ call.ops # <<>>
    /\ db = <<>> /\ index = {} /\ tags = {}

\* some new item of the list carries a section path holding the separator
HasSeparatorTagNew(items, store) ==
    \E i \in DOMAIN items :
        /\ IsNew(items[i], store)
        /\ \E t \in TagsOf(items[i]) : ~SeparatorFree(t)

\* C7: a batch_dl call with a new item carrying a tag that contains '|' is
\* rejected before any write: it does not commit and the stores are unchanged.
C7_SeparatorTagRejected ==
    [][(call'.op = "batch_dl" /\ HasSeparatorTagNew(call'.items, db)) =>
        /\ call'.outcome # "committed"
        /\ UNCHANGED stores]_vars

\* the entries position idx..idx+19 of a reverse scan
Window(entries, page) ==
    {entries[i] : i \in {j \in DOMAIN entries :
                            j > PageSize * page /\ j <= (PageSize * page) + PageSize}}

\* C8: a reader that meets an index entry whose id has no payload in the
\* Content Store fails; it never returns a page that leaves the entry out.
C8_DanglingEntryIsFatal ==
    /\ (call.op = "list"
          /\ \E k \in Window(RevIter(index), call.page) :
                SliceFrom(k, TsWidth) \notin DOMAIN db)
       => call.panicked
    /\ (call.op = "page" /\ ~call.article
          /\ \E k \in Window(RevIter({e \in tags : HasPrefix(e, call.key \o <<SEP>>)}),
                             call.page) :
                SliceFrom(k, (Len(call.key) + 1) + TsWidth) \notin DOMAIN db)
       => call.panicked

----------------------------------------------------------------------------
(* Exactly-once indexing                                                   *)

\* the chronological entries whose id part is id
ChronoEntriesOf(id) ==
    {k \in index : Len(k) >= TsWidth /\ SliceFrom(k, TsWidth) = id}

\* the tag entries of the pair (id, t): t ++ '|' ++ 8 bytes ++ id
TagEntriesOf(id, t) ==
    {k \in tags : /\ Len(k) = ((Len(t) + 1) + TsWidth) + Len(id)
                  /\ HasPrefix(k, t \o <<SEP>>)
                  /\ SliceFrom(k, (Len(t) + 1) + TsWidth) = id}

\* C11: every id of the Content Store has exactly one Chronological Index
\* entry and exactly one Tag Index entry per tag of its item, also when one
\* batch_dl call holds the id more than once with different dates or tags.
C11_ExactlyOnceIndexed ==
    \A id \in DOMAIN db :
        /\ Cardinality(ChronoEntriesOf(id)) = 1
        /\ \A t \in TagsOf(db[id]) : Cardinality(TagEntriesOf(id, t)) = 1

----------------------------------------------------------------------------
(* The spider's main loop: fetch_section for each of the three sections    *)

\* the sections main() walks: "/wainao-reads", "/english", "/wainao-watches"
SectionCount == 3

\* largest total count the feed reports for a section
MaxCount == 2

\* the feed pages of the main loop: items whose date parses, one section each
SpiderItems ==
    {it \in FeedItems : Parses(it.first_publish_date) /\ Len(it.sections) = 1}

SpiderPages == SeqsUpTo(SpiderItems, MaxBatch)

\* the locals of fetch_section at its start, for section number n; pending
\* holds the fetched pages batch_dl has not finished, received counts the
\* items the feed has returned for this section, committed the ids committed
StartSection(n, committed) ==
    [pc |-> "fetch", section |-> n, offset |-> 0, count |-> 0, first |-> TRUE,
     pending |-> <<>>, received |-> 0, committed |-> committed]

InitSpider ==
    /\ db = <<>>
    /\ index = {}
    /\ tags = {}
    /\ call = [op |-> "none"]
    /\ spider = StartSection(1, {})
    /\ race = NoRace

\* mutant: the next page is requested while batch_dl of the last one runs
MayFetchEarly(sp) == sp.pc \in {"fetch", "batch"}

\* fetch_story_list is awaited only after the batch_dl before it returned
MayFetch(sp) == sp.pc = "fetch"

\* fetch_story_list(offset, section) returns (count, items); only the first
\* call of a section keeps the count
FetchStoryList(cnt, items) ==
    /\ MayFetch(spider)
    /\ spider' = [spider EXCEPT !.pc = "batch",
                                !.count = IF spider.first THEN cnt ELSE @,
                                !.first = FALSE,
                                !.pending = Append(@, items),
                                !.received = @ + Len(items)]
    /\ UNCHANGED <<stores, call, race>>

\* fetch_story_list(..).await.unwrap() on a failed request
FetchFails ==
    /\ MayFetch(spider)
    /\ spider' = [spider EXCEPT !.pc = "crashed"]
    /\ UNCHANGED <<stores, call, race>>

\* offset += items.len(), then the loop test `offset < count`, the return of
\* fetch_section and the next round of the for loop of main
AfterBatch(sp, items) ==
    LET offset    == sp.offset + Len(items)
        committed == sp.committed \cup
                     {trim_matches(items[i].website_url, SLASH) : i \in DOMAIN items}
    IN  IF offset < sp.count
        THEN [sp EXCEPT !.pc = "fetch", !.offset = offset,
                        !.pending = Tail(@), !.committed = committed]
        ELSE IF sp.section < SectionCount
        THEN StartSection(sp.section + 1, committed)
        ELSE [sp EXCEPT !.pc = "done", !.offset = offset,
                        !.pending = Tail(@), !.committed = committed]

\* batch_dl(&mut items, ..).await on the page fetched last
BatchPage(commitOk) ==
    /\ spider.pc = "batch"
    /\ LET items == Head(spider.pending)
       IN  /\ BatchDl(items, commitOk)
           /\ spider' = IF ~Stage(items, db, <<>>).panicked /\ commitOk
                        THEN AfterBatch(spider, items)
                        ELSE [spider EXCEPT !.pc = "crashed"]
    /\ UNCHANGED race

NextSpider ==
    \/ \E cnt \in 0..MaxCount, items \in SpiderPages : FetchStoryList(cnt, items)
    \/ FetchFails
    \/ \E commitOk \in BOOLEAN : BatchPage(commitOk)

SpecSpider == InitSpider /\ [][NextSpider]_vars

\* the main loop always takes its next step
SpecSpiderFair == SpecSpider /\ WF_vars(NextSpider)

\* C12: the batch of fetched page k is committed before the fetch of page
\* k+1 starts: at most one fetched page is uncommitted at any time, none is
\* when a fetch starts, and every id of the pages committed so far is in the
\* Content Store, where the contains_key check of the next page reads it.
C12_SequentialIngestion ==
    spider.pc # "off" =>
        /\ Len(spider.pending) <= 1
        /\ MayFetch(spider) => spider.pending = <<>>
        /\ spider.committed \subseteq DOMAIN db

\* the second page of a section is about to be fetched after the first one
\* was committed
C12_Witness ==
    /\ spider.pc = "fetch" /\ ~spider.first
    /\ spider.offset = 1 /\ spider.count = 2
    /\ spider.committed # {} /\ spider.pending = <<>>

\* C14: fetch_section terminates for every count and every sequence of feed
\* responses, and at every loop test offset equals the number of items the
\* feed has returned for the section.
C14_FetchSectionTerminates ==
    /\ [](spider.pc = "fetch" => spider.offset = spider.received)
    /\ <>(spider.pc \in {"done", "crashed"})

----------------------------------------------------------------------------
(* Two batch_dl calls on the same keyspace, run as concurrent tasks.  A     *)
(* task suspends at the awaits of the loop body (spider.rs 124, 144, 147), *)
(* so the two loops interleave item by item; the check and the inserts of  *)
(* one item (spider.rs 164-190) and the commit (192) have no await inside. *)

RaceTasks == {1, 2}

\* items of the two calls: every feed item whose date parses
RaceItems == {it \in FeedItems : Parses(it.first_publish_date)}

RaceBatches == SeqsUpTo(RaceItems, MaxBatch)

\* a call at `let mut batch = keyspace.batch()` with its items ahead
StartTask(items) == [pc |-> "staging", items |-> items, rest |-> items, ops |-> <<>>]

InitRace ==
    /\ db = <<>>
    /\ index = {}
    /\ tags = {}
    /\ call = [op |-> "none"]
    /\ spider = NoSpider
    /\ \E i1 \in RaceBatches, i2 \in RaceBatches :
          race = [pc |-> "on", commits |-> <<>>,
                  task |-> [t \in RaceTasks |-> IF t = 1 THEN StartTask(i1)
                                                ELSE StartTask(i2)]]

\* one round of the for loop of task t: the contains_key check against the
\* committed partition and the inserts into the task's own batch
StageOne(t) ==
    LET me     == race.task[t]
        staged == Stage(<<Head(me.rest)>>, db, me.ops)
    IN  /\ race.pc = "on"
        /\ me.pc = "staging"
        /\ me.rest # <<>>
        /\ race' = [race EXCEPT !.task[t] =
                       [me EXCEPT !.pc = IF staged.panicked THEN "panicked" ELSE @,
                                  !.rest = Tail(@),
                                  !.ops = staged.ops]]
        /\ UNCHANGED <<stores, call, spider>>

\* batch.commit().unwrap() of task t
CommitTask(t, commitOk) ==
    LET me == race.task[t]
    IN  /\ race.pc = "on"
        /\ me.pc = "staging"
        /\ me.rest = <<>>
        /\ call' = [op |-> "batch_dl", items |-> me.items, ops |-> me.ops,
                    outcome |-> IF commitOk THEN "committed" ELSE "commit_panic"]
        /\ IF commitOk
           THEN /\ db' = CommitDb(db, me.ops)
                /\ index' = CommitKeys(index, me.ops, "index")
                /\ tags' = CommitKeys(tags, me.ops, "tags")
                /\ race' = [race EXCEPT !.task[t].pc = "committed",
                                        !.commits = Append(@, t)]
           ELSE /\ UNCHANGED stores
                /\ race' = [race EXCEPT !.task[t].pc = "panicked"]
        /\ UNCHANGED spider

NextRace ==
    \/ \E t \in RaceTasks : StageOne(t)
    \/ \E t \in RaceTasks, commitOk \in BOOLEAN : CommitTask(t, commitOk)

SpecRace == InitRace /\ [][NextRace]_vars

\* the positions of the content inserts for id in a batch
DbOpsFor(ops, id) == {i \in DOMAIN ops : ops[i].part = "db" /\ ops[i].key = id}

\* the payload a batch leaves under id: its last insert for id
LastPayload(ops, id) ==
    ops[CHOOSE i \in DOMAIN ops :
            i \in DbOpsFor(ops, id) /\ \A j \in DbOpsFor(ops, id) : j <= i].value

\* the chronological keys a batch holds for id
StagedChrono(ops, id) ==
    {ops[i].key : i \in {j \in DOMAIN ops :
                            ops[j].part = "index" /\ SliceFrom(ops[j].key, TsWidth) = id}}

\* both calls passed the contains_key check for id and both committed
BothWrote(id) ==
    \A t \in RaceTasks :
        race.task[t].pc = "committed" /\ DbOpsFor(race.task[t].ops, id) # {}

RaceIds == {trim_matches(it.website_url, SLASH) : it \in RaceItems}

\* C13: when two concurrent calls both pass the contains check for an id and
\* both commit, the Content Store holds the payload of the later commit, the
\* Chronological Index holds every key either call staged for the id, and
\* it holds at least two entries for the id when the calls' dates differ.
C13_CheckThenActRace ==
    race.pc = "on" =>
        \A id \in RaceIds :
            BothWrote(id) =>
                LET first == race.task[race.commits[1]].ops
                    later == race.task[race.commits[2]].ops
                IN  /\ db[id] = LastPayload(later, id)
                    /\ StagedChrono(first, id) \cup StagedChrono(later, id)
                          \subseteq index
                    /\ StagedChrono(first, id) # StagedChrono(later, id)
                          => Cardinality(ChronoEntriesOf(id)) >= 2

\* both calls wrote the id "a" with different dates; the store holds the
\* later call's payload, which is not the first call's, and two index entries
C13_Witness ==
    /\ race.pc = "on" /\ BothWrote(<<97>>)
    /\ LET first == race.task[race.commits[1]].ops
           later == race.task[race.commits[2]].ops
       IN  /\ db[<<97>>] = LastPayload(later, <<97>>)
           /\ db[<<97>>] # LastPayload(first, <<97>>)
           /\ Cardinality(ChronoEntriesOf(<<97>>)) = 2

----------------------------------------------------------------------------
(* The page number as the machine word it is: SiteParams.page is a usize   *)
(* (web.rs 130) and `page * 20`, `n + 20` are usize arithmetic.  A word is *)
(* held as LimbCount limbs of LimbBits bits, least significant first.      *)
(* With overflow checks (the debug profile) an overflowing operation       *)
(* panics, without them (the release profile) it wraps modulo 2^WordBits.  *)

WordBits == 64

LimbBits == 16

LimbBase == 2 ^ LimbBits

LimbCount == WordBits \div LimbBits

\* the word of a number below LimbBase * LimbBase
ToWord(n) ==
    [i \in 1..LimbCount |-> IF i = 1 THEN n % LimbBase
                            ELSE IF i = 2 THEN n \div LimbBase
                            ELSE 0]

\* the word 2^k
Pow2Word(k) ==
    [i \in 1..LimbCount |-> IF i = (k \div LimbBits) + 1 THEN 2 ^ (k % LimbBits) ELSE 0]

\* usize::MAX
WordMax == [i \in 1..LimbCount |-> LimbBase - 1]

\* w * m + carry limb by limb from limb i; carry is what leaves the word
RECURSIVE MulLimbs(_, _, _, _, _)
MulLimbs(w, m, i, carry, acc) ==
    IF i > LimbCount THEN [word |-> acc, carry |-> carry]
    ELSE LET t == (w[i] * m) + carry
         IN  MulLimbs(w, m, i + 1, t \div LimbBase, Append(acc, t % LimbBase))

\* w + carry limb by limb from limb i
RECURSIVE AddLimbs(_, _, _, _)
AddLimbs(w, i, carry, acc) ==
    IF i > LimbCount THEN [word |-> acc, carry |-> carry]
    ELSE LET t == w[i] + carry
         IN  AddLimbs(w, i + 1, t \div LimbBase, Append(acc, t % LimbBase))

\* a < b on usize, compared from the most significant limb i down
RECURSIVE WordLessFrom(_, _, _)
WordLessFrom(a, b, i) ==
    IF i = 0 THEN FALSE
    ELSE IF a[i] # b[i] THEN a[i] < b[i]
    ELSE WordLessFrom(a, b, i - 1)

WordLess(a, b) == WordLessFrom(a, b, LimbCount)

\* usize `w * m`: a panic under overflow checks, else the wrapped product
mul_usize(w, m, checks) ==
    LET r == MulLimbs(w, m, 1, 0, <<>>)
    IN  [panicked |-> checks /\ r.carry # 0, value |-> r.word]

\* usize `w + m`
add_usize(w, m, checks) ==
    LET r == AddLimbs(w, 1, m, <<>>)
    IN  [panicked |-> checks /\ r.carry # 0, value |-> r.word]

\* the loop of list() with n a usize; idx counts the entries the iterator
\* yields and stays far below LimbBase * LimbBase
RECURSIVE ListLoopUsize(_, _, _, _, _, _)
ListLoopUsize(entries, idx, n, checks, store, items) ==
    IF idx >= Len(entries) THEN [panicked |-> FALSE, items |-> items]
    ELSE IF WordLess(ToWord(idx), n)
    THEN ListLoopUsize(entries, idx + 1, n, checks, store, items)
    ELSE LET lim == add_usize(n, PageSize, checks)
             k   == entries[idx + 1]
         IN  IF lim.panicked THEN [panicked |-> TRUE, items |-> <<>>]
             ELSE IF ~WordLess(ToWord(idx), lim.value)
             THEN [panicked |-> FALSE, items |-> items]
             ELSE IF Len(k) < TsWidth THEN [panicked |-> TRUE, items |-> <<>>]
             ELSE LET db_key == SliceFrom(k, TsWidth)
                  IN  IF db_key \in DOMAIN store
                      THEN ListLoopUsize(entries, idx + 1, n, checks, store,
                                         Append(items, Entry(db_key, store[db_key])))
                      ELSE ListLoopUsize(entries, idx + 1, n, checks, store, items)

\* list() on a usize page
list_usize(page, checks, store, keys) ==
    LET n == mul_usize(page, PageSize, checks)
    IN  IF n.panicked THEN [panicked |-> TRUE, items |-> <<>>]
        ELSE ListLoopUsize(RevIter(keys), 0, n.value, checks, store, <<>>)

\* the loop of page() with n a usize
RECURSIVE PageLoopUsize(_, _, _, _, _, _, _)
PageLoopUsize(entries, idx, n, checks, len, store, items) ==
    IF idx >= Len(entries) THEN [panicked |-> FALSE, items |-> items]
    ELSE IF WordLess(ToWord(idx), n)
    THEN PageLoopUsize(entries, idx + 1, n, checks, len, store, items)
    ELSE LET lim == add_usize(n, PageSize, checks)
             k   == entries[idx + 1]
         IN  IF lim.panicked THEN [panicked |-> TRUE, items |-> <<>>]
             ELSE IF ~WordLess(ToWord(idx), lim.value)
             THEN [panicked |-> FALSE, items |-> items]
             ELSE IF Len(k) < len + TsWidth THEN [panicked |-> TRUE, items |-> <<>>]
             ELSE LET website_key == SliceFrom(k, len + TsWidth)
                  IN  IF website_key \in DOMAIN store
                      THEN PageLoopUsize(entries, idx + 1, n, checks, len, store,
                                         Append(items, Entry(website_key,
                                                             store[website_key])))
                      ELSE [panicked |-> TRUE, items |-> <<>>]

\* the else branch of page() on a usize page
list_by_tag_usize(key, page, checks, store, keys) ==
    LET prefix == key \o <<SEP>>
        n      == mul_usize(page, PageSize, checks)
    IN  IF n.panicked THEN [panicked |-> TRUE, items |-> <<>>]
        ELSE PageLoopUsize(RevIter({k \in keys : HasPrefix(k, prefix)}), 0, n.value,
                           checks, Len(prefix), store, <<>>)

\* the page numbers of the requests: the small ones, a quarter and a
\* sixteenth of 2^WordBits, and usize::MAX
UsizePages ==
    {ToWord(p) : p \in 0..MaxPage}
        \cup {Pow2Word(WordBits - 2), Pow2Word(WordBits - 4), WordMax}

\* web.rs list: GET /?page=p, built with or without overflow checks
ListUsize(page, checks) ==
    LET r == list_usize(page, checks, db, index)
    IN  /\ call' = [op |-> "list", page |-> page, checks |-> checks,
                    matching |-> Cardinality(index),
                    panicked |-> r.panicked, items |-> r.items]
        /\ UNCHANGED stores

\* web.rs page: GET /<key>?page=p, built with or without overflow checks
PageUsize(key, page, checks) ==
    /\ IF key \in DOMAIN db
       THEN call' = [op |-> "page", key |-> key, page |-> page, checks |-> checks,
                     article |-> TRUE, matching |-> 0,
                     panicked |-> FALSE, items |-> <<Entry(key, db[key])>>]
       ELSE LET r == list_by_tag_usize(key, page, checks, db, tags)
            IN  call' = [op |-> "page", key |-> key, page |-> page, checks |-> checks,
                         article |-> FALSE,
                         matching |-> Cardinality({k \in tags :
                                                     HasPrefix(k, key \o <<SEP>>)}),
                         panicked |-> r.panicked, items |-> r.items]
    /\ UNCHANGED stores

NextUsize ==
    \/ \E items \in Batches, commitOk \in BOOLEAN :
          BatchDl(items, commitOk) /\ UNCHANGED procs
    \/ \E page \in UsizePages, checks \in BOOLEAN :
          ListUsize(page, checks) /\ UNCHANGED procs
    \/ \E key \in Paths, page \in UsizePages, checks \in BOOLEAN :
          PageUsize(key, page, checks) /\ UNCHANGED procs

SpecUsize == Init /\ [][NextUsize]_vars

\* 20 * p >= count in exact arithmetic: the product leaves the word or the
\* word it fits in is not below count
OutOfRange(page, count) ==
    LET r == MulLimbs(page, PageSize, 1, 0, <<>>)
    IN  r.carry # 0 \/ ~WordLess(r.word, ToWord(count))

\* C15: for every page p of the machine word with 20*p >= the number of
\* matching index entries, list_global(p) and list_by_tag(tag, p) return
\* an empty sequence.
C15_OutOfRangePagesAreEmpty ==
    /\ call.op = "list" /\ OutOfRange(call.page, call.matching)
          => ~call.panicked /\ call.items = <<>>
    /\ call.op = "page" /\ ~call.article /\ OutOfRange(call.page, call.matching)
          => ~call.panicked /\ call.items = <<>>

====
